---------------------------- MODULE Spec2Model ----------------------------
(***************************************************************************)
(* The two inventory scripts of pcs-sizing-scripts as one state machine:   *)
(*   src/aws/aws_inventory_check-v3.py                                     *)
(*   src/azure/azure_inventory_check-v7-with-csv.py                        *)
(* Spec is one run of either script.  AwsRuns is a sequence of runs of the  *)
(* AWS script in one working directory: the process state is rebuilt at    *)
(* every run, while the kubeconfig files, the installed tools and the      *)
(* clusters themselves outlive it.                                         *)
(***************************************************************************)
EXTENDS Integers, Sequences, FiniteSets, TLC

(***************************** bounds **************************************)
MaxRuns == 2          \* runs of the script in the same working directory
MaxInputs == 3        \* cluster names typed in the AKS selection loop
MaxSize == 2          \* pods of a cluster
MaxItems == 2         \* size of the account whose resources are listed
EksPageSize == 2      \* items list_clusters returns when maxResults is not given

(***************************** text ****************************************)
\* Text is a sequence of one-character strings; "w" stands for the
\* non-blank text of a word (a name, the columns of an output line).
Rep(x, n) == [i \in 1..n |-> x]

RECURSIVE Sum(_)
Sum(s) == IF s = <<>> THEN 0 ELSE Head(s) + Sum(Tail(s))

BSeq(S, n) == UNION {[1..k -> S] : k \in 0..n}

WhiteSpace == {" ", "\n"}

RECURSIVE LStrip(_)
LStrip(t) == IF t # <<>> /\ Head(t) \in WhiteSpace THEN LStrip(Tail(t)) ELSE t

RECURSIVE RStrip(_)
RStrip(t) ==
    IF t # <<>> /\ t[Len(t)] \in WhiteSpace
    THEN RStrip(SubSeq(t, 1, Len(t) - 1)) ELSE t

\* str.strip()
Strip(t) == RStrip(LStrip(t))

LowerChar(c) ==
    CASE c = "D" -> "d" [] c = "O" -> "o" [] c = "N" -> "n" [] c = "E" -> "e"
      [] OTHER -> c

\* str.lower()
Lower(t) == [i \in DOMAIN t |-> LowerChar(t[i])]

Digit(d) == <<"0", "1", "2", "3", "4", "5", "6", "7", "8", "9">>[d + 1]

RECURSIVE Dec(_)
Dec(n) == IF n < 10 THEN <<Digit(n)>> ELSE Dec(n \div 10) \o <<Digit(n % 10)>>

\* wc -l: the number of newline characters of its input, printed on a line
WcL(t) == Dec(Cardinality({i \in DOMAIN t : t[i] = "\n"})) \o <<"\n">>

\* tr " " "\n"
Tr(t) == [i \in DOMAIN t |-> IF t[i] = " " THEN "\n" ELSE t[i]]

\* kubectl get ... --no-headers: one line per object
NoHeaders(n) == [i \in 1..(2 * n) |-> IF i % 2 = 1 THEN "w" ELSE "\n"]

\* kubectl -o jsonpath="{..name}": the names separated by single spaces,
\* with no newline after the last
Jsonpath(n) ==
    IF n = 0 THEN <<>>
    ELSE [i \in 1..(2 * n - 1) |-> IF i % 2 = 1 THEN "w" ELSE " "]

IsCount(t) ==
    /\ t # <<>>
    /\ \A i \in DOMAIN t : \E d \in 0..9 : t[i] = Digit(d)

(***************************** names ***************************************)
NameA == <<"a">>
NameB == <<"b">>
NameDone == <<"D", "o", "n", "e">>
ClusterNames == {NameA, NameB, NameDone}

\* what the operator may type at the cluster prompt, before strip()
RawInputs ==
    { <<"a">>, <<" ", "b", " ">>, <<"D", "o", "n", "e">>,
      <<"d", "o", "n", "e">>, <<"z">> }

\* the sequences of distinct cluster names an account may list
ClusterLists ==
    {s \in BSeq(ClusterNames, Cardinality(ClusterNames)) :
        \A i, j \in DOMAIN s : i # j => s[i] # s[j]}

\* the first page of a listing
FirstPage(s, size) == SubSeq(s, 1, IF Len(s) < size THEN Len(s) ELSE size)

(***************************** subscription id *****************************)
\* "h" is a lower-case hexadecimal digit, "H" an upper-case one, "g" a
\* letter that is not hexadecimal.
SubValid ==
    Rep("h", 8) \o <<"-">> \o Rep("h", 4) \o <<"-">> \o Rep("H", 4)
        \o <<"-">> \o Rep("h", 4) \o <<"-">> \o Rep("h", 12)
SubShort == Tail(SubValid)
SubLong == SubValid \o <<"h">>
SubNotHex == <<"g">> \o Tail(SubValid)
SubscriptionInputs ==
    {SubValid, <<" ">> \o SubValid, SubShort, SubLong, SubNotHex, <<>>}

IsHex(c) == c \in {"h", "H"}

\* the prefix of the pattern up to, not including, the closing anchor
MatchPrefix(s) ==
    /\ Len(s) >= 36
    /\ \A i \in 1..36 :
          IF i \in {9, 14, 19, 24} THEN s[i] = "-" ELSE IsHex(s[i])

\* the pattern without its closing anchor
MatchSubscription_unanchored(s) == MatchPrefix(s)

\* re.match(r'^[0-9a-f]{8}-[0-9a-f]{4}-[0-9a-f]{4}-[0-9a-f]{4}-[0-9a-f]{12}$',
\*          subscription_id, re.I)
MatchSubscription(s) == MatchPrefix(s) /\ Len(s) = 36

(***************************** state ***************************************)
VARIABLES
    script,           \* "aws" or "azure": the script that is run
    run,              \* number of the current run
    pc,               \* position in __main__
    exit_code,        \* exit status, -1 while the run goes on
    exit_at,          \* position at which the run ended
    installed,        \* command line tools found on the PATH
    fatal,            \* kinds of fatal error that occurred in this run
    netCalls,         \* who attempted a network call in this run
    subscription_id,  \* the identifier read by login_azure
    inventory,        \* the dictionary get_inventory builds
    listed,           \* the items the account really holds, per category
    accountClusters,  \* the managed clusters of the account, as listed
    clusters,         \* the names get_*_data enumerated
    next_i,           \* index of the next cluster of the EKS loop
    clusters_data,    \* the rows appended so far
    scanLog,          \* per row: the context and the cluster the queries hit
    cluster_name,     \* the name last read in the AKS loop, stripped
    n_inputs,         \* how many names the AKS loop has read
    credFetches,      \* the names a credential fetch was started for
    failedClusters,   \* clusters whose resolution or kubectl query failed
    environ,          \* os.environ["KUBECONFIG"]: "unset" or "cwd"
    homeCfg,          \* current-context of ~/.kube/config
    cwdCfg,           \* ./kubeconfig.yaml
    kube,             \* the clusters as first observed
    firstCounts,      \* the counts of the first row recorded per cluster
    inventory_csv,    \* what this run wrote to the inventory report
    cluster_csv       \* what this run wrote to the cluster report

vars ==
    << script, run, pc, exit_code, exit_at, installed, fatal, netCalls,
       subscription_id, inventory, listed, accountClusters, clusters, next_i,
       clusters_data, scanLog, cluster_name, n_inputs, credFetches,
       failedClusters, environ, homeCfg, cwdCfg, kube, firstCounts,
       inventory_csv, cluster_csv >>

Tools == {"cli", "kubectl"}
Running == -1
NoCtx == <<>>
NoFile == [exists |-> FALSE, ctx |-> NoCtx]
NoInventory == [done |-> FALSE, n |-> <<>>]
NoReport == [exists |-> FALSE, rows |-> <<>>]
Unseen == [seen |-> FALSE, up |-> FALSE, nodes |-> 0, pods |-> <<>>]
NoCounts == [seen |-> FALSE, Nodes |-> <<>>, Pods |-> <<>>, Containers |-> <<>>]

Unreachable == [seen |-> TRUE, up |-> FALSE, nodes |-> 0, pods |-> <<>>]

\* a reachable cluster of k pods: each pod has one container status, and
\* a node holds two pods
Cluster(k) ==
    [seen |-> TRUE, up |-> TRUE, nodes |-> (k + 1) \div 2, pods |-> Rep(1, k)]

\* what a cluster can turn out to be when it is first queried
Profiles == {Unreachable} \cup {Cluster(k) : k \in 0..MaxSize}

\* The operator's shell exports no KUBECONFIG and ~/.kube/config has no
\* current context yet; the tools may or may not be installed.
Init ==
    /\ script \in {"aws", "azure"}
    /\ run = 1
    /\ pc = "import"
    /\ exit_code = Running
    /\ exit_at = "none"
    /\ installed \in SUBSET Tools
    /\ fatal = {}
    /\ netCalls = {}
    /\ subscription_id = <<>>
    /\ inventory = NoInventory
    /\ listed = <<>>
    /\ accountClusters \in ClusterLists
    /\ clusters = <<>>
    /\ next_i = 1
    /\ clusters_data = <<>>
    /\ scanLog = <<>>
    /\ cluster_name = <<>>
    /\ n_inputs = 0
    /\ credFetches = {}
    /\ failedClusters = {}
    /\ environ = "unset"
    /\ homeCfg = NoCtx
    /\ cwdCfg = NoFile
    /\ kube = [c \in ClusterNames |-> Unseen]
    /\ firstCounts = [c \in ClusterNames |-> NoCounts]
    /\ inventory_csv = NoReport
    /\ cluster_csv = NoReport

\* sys.exit(code), or the interpreter ending on an uncaught exception
Exit(code) ==
    /\ pc' = "done"
    /\ exit_code' = code
    /\ exit_at' = pc

Goto(p) ==
    /\ pc' = p
    /\ UNCHANGED <<exit_code, exit_at>>


(***************************** bootstrap ***********************************)
\* The module-level imports run before check_*_packages is even defined: a
\* missing package ends the run on an uncaught ImportError, and with the
\* packages present check_*_packages installs nothing.
Import ==
    /\ pc = "import"
    /\ \E present \in BOOLEAN :
          IF present THEN Goto("check_tools") ELSE Exit(1)
    /\ UNCHANGED << script, run, installed, fatal, netCalls, subscription_id,
                    inventory, listed, accountClusters, clusters, next_i,
                    clusters_data, scanLog, cluster_name, n_inputs, credFetches,
                    failedClusters, environ, homeCfg, cwdCfg, kube,
                    firstCounts, inventory_csv, cluster_csv >>

aws_import == script = "aws" /\ Import

azure_import == script = "azure" /\ Import

Outcome(stop, inst, failed, net) ==
    [stop |-> stop, inst |-> inst, failed |-> failed, net |-> net]

\* subprocess.run([tool] + version_command, check=True) of a tool that is on
\* the PATH: a non-zero status raises CalledProcessError, which nothing
\* catches
VersionCheck == {Outcome(FALSE, TRUE, FALSE, FALSE), Outcome(TRUE, TRUE, FALSE, FALSE)}

\* a list of commands each run with check=True; failAt is the first command
\* that fails (0: none), netFrom the first command that uses the network
Commands(n, netFrom) ==
    {Outcome(failAt # 0, failAt = 0, failAt # 0, failAt = 0 \/ failAt >= netFrom) :
        failAt \in 0..n}

\* pip3 uninstall, curl, unzip, sudo ./aws/install
aws_install_cli == Commands(4, 2)

\* sudo snap install kubectl --classic
install_kubectl == Commands(1, 1)

\* curl -sL https://aka.ms/InstallAzureCLIDeb | sudo bash: one shell command
\* whose status is the status of sudo bash, whatever curl did
azure_install_cli ==
    {Outcome(~bashOk, curlOk /\ bashOk, ~(curlOk /\ bashOk), TRUE) :
        curlOk \in BOOLEAN, bashOk \in BOOLEAN}

CheckTools(installCli, installKubectl) ==
    /\ pc = "check_tools"
    /\ \E o1 \in (IF "cli" \in installed THEN VersionCheck ELSE installCli),
          o2 \in (IF "kubectl" \in installed THEN VersionCheck ELSE installKubectl) :
          LET both == ~o1.stop
              inst == (IF o1.inst THEN {"cli"} ELSE {})
                         \cup (IF both /\ o2.inst THEN {"kubectl"} ELSE {})
              failed == o1.failed \/ (both /\ o2.failed)
              net == o1.net \/ (both /\ o2.net)
          IN  /\ installed' = installed \cup inst
              /\ fatal' = IF failed THEN fatal \cup {"tool"} ELSE fatal
              /\ netCalls' = IF net THEN netCalls \cup {"check_tools"} ELSE netCalls
              /\ IF o1.stop \/ o2.stop THEN Exit(1) ELSE Goto("login")
    /\ UNCHANGED << script, run, subscription_id, inventory, listed,
                    accountClusters, clusters, next_i, clusters_data, scanLog,
                    cluster_name, n_inputs, credFetches, failedClusters, environ, homeCfg,
                    cwdCfg, kube, firstCounts, inventory_csv, cluster_csv >>

aws_check_tools == script = "aws" /\ CheckTools(aws_install_cli, install_kubectl)

azure_check_tools == script = "azure" /\ CheckTools(azure_install_cli, install_kubectl)

(***************************** login ***************************************)
login_aws ==
    /\ script = "aws"
    /\ pc = "login"
    /\ netCalls' = netCalls \cup {"sdk"}
    /\ \E ok \in BOOLEAN :
          IF ok THEN Goto("get_inventory") /\ UNCHANGED fatal
          ELSE Exit(1) /\ fatal' = fatal \cup {"auth"}
    /\ UNCHANGED << script, run, installed, subscription_id, inventory,
                    listed, accountClusters, clusters, next_i, clusters_data,
                    scanLog, cluster_name, n_inputs, credFetches, failedClusters, environ,
                    homeCfg, cwdCfg, kube, firstCounts, inventory_csv,
                    cluster_csv >>

\* The constructor of InteractiveBrowserCredential and the constructors of
\* the management clients open no connection; the listing calls do.
login_azure ==
    /\ script = "azure"
    /\ pc = "login"
    /\ \E raw \in SubscriptionInputs :
          /\ subscription_id' = Strip(raw)
          /\ IF ~MatchSubscription(Strip(raw))
             THEN Exit(1) /\ fatal' = fatal \cup {"input"}
             ELSE \E ok \in BOOLEAN :
                     IF ok THEN Goto("get_inventory") /\ UNCHANGED fatal
                     ELSE Exit(1) /\ fatal' = fatal \cup {"auth"}
    /\ UNCHANGED << script, run, installed, netCalls, inventory, listed,
                    accountClusters, clusters, next_i, clusters_data, scanLog,
                    cluster_name, n_inputs, credFetches, failedClusters, environ, homeCfg,
                    cwdCfg, kube, firstCounts, inventory_csv, cluster_csv >>

(***************************** inventory ***********************************)
InventoryUnchanged ==
    UNCHANGED << script, run, installed, subscription_id, accountClusters,
                 clusters, next_i, clusters_data, scanLog, cluster_name, n_inputs,
                 credFetches, failedClusters, environ, homeCfg, cwdCfg, kube,
                 firstCounts, inventory_csv, cluster_csv >>

\* the answer of describe_instances for an account of size k: k
\* reservations, the i-th of i instances
Reservations(k) == [i \in 1..k |-> i]

\* a handler that would carry on with what was collected so far
aws_inventory_failed_partial ==
    /\ inventory' = [done |-> TRUE, n |-> <<>>]
    /\ fatal' = fatal \cup {"inventory"}
    /\ Goto("get_data")
    /\ UNCHANGED listed

\* except Exception: print, sys.exit(1); the dictionary is never returned
aws_inventory_failed ==
    /\ fatal' = fatal \cup {"inventory"}
    /\ Exit(1)
    /\ UNCHANGED <<inventory, listed>>

\* len(...) of the one response of each call: describe_instances answers
\* with reservations, list_clusters with its first page
aws_get_inventory ==
    /\ script = "aws"
    /\ pc = "get_inventory"
    /\ netCalls' = netCalls \cup {"sdk"}
    /\ \/ aws_inventory_failed
       \/ \E k \in 0..MaxItems :
             LET reservations == Reservations(k)
                 vpcs == (k + 1) \div 2
                 buckets == MaxItems - k
             IN
             /\ inventory' =
                   [done |-> TRUE,
                    n |-> << Len(reservations), vpcs, buckets,
                             Len(FirstPage(accountClusters, EksPageSize)) >>]
             /\ listed' = <<Sum(reservations), vpcs, buckets, Len(accountClusters)>>
             /\ Goto("get_data")
             /\ UNCHANGED fatal
    /\ InventoryUnchanged

azure_inventory_failed ==
    /\ fatal' = fatal \cup {"inventory"}
    /\ Exit(1)
    /\ UNCHANGED <<inventory, listed>>

\* len(list(pager)): list() walks every page of the pager
azure_get_inventory ==
    /\ script = "azure"
    /\ pc = "get_inventory"
    /\ netCalls' = netCalls \cup {"sdk"}
    /\ \/ azure_inventory_failed
       \/ \E k \in 0..MaxItems :
             LET vms == k
                 nets == (k + 1) \div 2
                 accounts == MaxItems - k
             IN
             /\ inventory' =
                   [done |-> TRUE,
                    n |-> <<vms, nets, accounts, Len(accountClusters)>>]
             /\ listed' = <<vms, nets, accounts, Len(accountClusters)>>
             /\ Goto("get_data")
             /\ UNCHANGED fatal
    /\ InventoryUnchanged


(***************************** kubectl *************************************)
Range(s) == {s[i] : i \in DOMAIN s}

\* the file kubectl and the aws command line read and write: the one
\* KUBECONFIG names, ~/.kube/config without it
ActiveCtx(env, home, cwd) == IF env = "unset" THEN home ELSE cwd.ctx

\* what the cluster behind context ctx turns out to be: a cluster answers
\* every query as it answered the first; no context reaches no cluster
Observe(ctx) ==
    IF ctx = NoCtx THEN {Unseen}
    ELSE IF kube[ctx].seen THEN {kube[ctx]} ELSE Profiles

Observed(ctx, p) == IF ctx = NoCtx THEN kube ELSE [kube EXCEPT ![ctx] = p]

Reached(ctx, p) == ctx # NoCtx /\ p.up

\* the standard output of a kubectl command: nothing when it fails
Stdout(ok, text) == IF ok THEN text ELSE <<>>

\* 'kubectl get nodes --no-headers | wc -l', decoded and stripped; the
\* status of the pipeline is the status of wc
CountNodes(ok, p) == Strip(WcL(Stdout(ok, NoHeaders(p.nodes))))

\* 'kubectl get pods --all-namespaces --no-headers | wc -l'
CountPods(ok, p) == Strip(WcL(Stdout(ok, NoHeaders(Len(p.pods)))))

\* 'kubectl get pods --all-namespaces -o jsonpath="{..status.containerStatuses[].name}"
\*   | tr " " "\n" | wc -l'
CountContainers(ok, p) == Strip(WcL(Tr(Stdout(ok, Jsonpath(Sum(p.pods))))))

Row(name, ok, p) ==
    [name |-> name, Nodes |-> CountNodes(ok, p), Pods |-> CountPods(ok, p),
     Containers |-> CountContainers(ok, p)]

Counts(r) ==
    [seen |-> TRUE, Nodes |-> r.Nodes, Pods |-> r.Pods, Containers |-> r.Containers]

\* clusters_data.append({...}), with the record of what the queries hit
AppendRow(name, ctx, p) ==
    LET r == Row(name, Reached(ctx, p), p)
    IN  /\ clusters_data' = Append(clusters_data, r)
        /\ scanLog' = Append(scanLog,
              [name |-> name, ctx |-> ctx, reached |-> Reached(ctx, p)])
        /\ firstCounts' =
              IF firstCounts[name].seen THEN firstCounts
              ELSE [firstCounts EXCEPT ![name] = Counts(r)]
        /\ kube' = Observed(ctx, p)

(***************************** EKS scan ************************************)
ScanUnchanged ==
    UNCHANGED << script, run, installed, subscription_id, inventory, listed,
                 accountClusters, inventory_csv, cluster_csv >>

\* eks.list_clusters()['clusters']: one call, its first page
get_eks_data_list ==
    /\ script = "aws"
    /\ pc = "get_data"
    /\ netCalls' = netCalls \cup {"sdk"}
    /\ \E ok \in BOOLEAN :
          IF ok
          THEN /\ clusters' = FirstPage(accountClusters, EksPageSize)
               /\ Goto("scan")
               /\ UNCHANGED fatal
          ELSE /\ Exit(1)
               /\ fatal' = fatal \cup {"scan"}
               /\ UNCHANGED clusters
    /\ next_i' = 1
    /\ UNCHANGED << clusters_data, scanLog, cluster_name, n_inputs, credFetches,
                    failedClusters, environ, homeCfg, cwdCfg, kube,
                    firstCounts >>
    /\ ScanUnchanged

\* aws eks update-kubeconfig: writes the context of the cluster into the
\* active file and makes it the current context
UpdateKubeconfig(c, env, home, cwd) ==
    IF env = "unset"
    THEN [home |-> c, cwd |-> cwd]
    ELSE [home |-> home, cwd |-> [exists |-> TRUE, ctx |-> c]]

\* kubectl config view --merge --flatten > kubeconfig.yaml: the shell
\* truncates kubeconfig.yaml, then kubectl prints the active file into it
ConfigViewToFile(env, home, cwd) ==
    LET truncated == [exists |-> TRUE, ctx |-> NoCtx]
    IN  [exists |-> TRUE, ctx |-> ActiveCtx(env, home, truncated)]

\* one iteration of 'for cluster_name in clusters'
get_eks_data_iter ==
    /\ script = "aws"
    /\ pc = "scan"
    /\ next_i <= Len(clusters)
    /\ LET c == clusters[next_i] IN
       \E resolved \in BOOLEAN :
          IF ~resolved
          THEN /\ Exit(1)
               /\ fatal' = fatal \cup {"scan"}
               /\ failedClusters' = failedClusters \cup {c}
               /\ netCalls' = netCalls \cup {"sdk"}
               /\ UNCHANGED << next_i, clusters_data, scanLog, environ,
                               homeCfg, cwdCfg, kube, firstCounts >>
          ELSE LET upd == UpdateKubeconfig(c, environ, homeCfg, cwdCfg)
                   file == ConfigViewToFile(environ, upd.home, upd.cwd)
                   ctx == ActiveCtx("cwd", upd.home, file)
               IN  /\ homeCfg' = upd.home
                   /\ cwdCfg' = file
                   /\ environ' = "cwd"
                   /\ netCalls' = netCalls \cup {"sdk", "cli", "kubectl"}
                   /\ \E p \in Observe(ctx) :
                         /\ AppendRow(c, ctx, p)
                         /\ failedClusters' =
                               IF Reached(ctx, p) THEN failedClusters
                               ELSE failedClusters \cup {c}
                   /\ next_i' = next_i + 1
                   /\ Goto("scan")
                   /\ UNCHANGED fatal
    /\ UNCHANGED <<clusters, cluster_name, n_inputs, credFetches>>
    /\ ScanUnchanged

\* the loop is over: return clusters_data
get_eks_data_return ==
    /\ script = "aws"
    /\ pc = "scan"
    /\ next_i > Len(clusters)
    /\ Goto("write")
    /\ UNCHANGED << fatal, netCalls, clusters, next_i, clusters_data, scanLog,
                    cluster_name, n_inputs, credFetches, failedClusters, environ, homeCfg,
                    cwdCfg, kube, firstCounts >>
    /\ ScanUnchanged

(***************************** AKS scan ************************************)
\* [c.name for c in containerservice_client.managed_clusters.list()]
get_aks_data_list ==
    /\ script = "azure"
    /\ pc = "get_data"
    /\ netCalls' = netCalls \cup {"sdk"}
    /\ \E ok \in BOOLEAN :
          IF ok
          THEN /\ clusters' = accountClusters
               /\ Goto("scan")
               /\ UNCHANGED fatal
          ELSE /\ Exit(1)
               /\ fatal' = fatal \cup {"scan"}
               /\ UNCHANGED clusters
    /\ UNCHANGED << next_i, clusters_data, scanLog, cluster_name, n_inputs, credFetches,
                    failedClusters, environ, homeCfg, cwdCfg, kube,
                    firstCounts >>
    /\ ScanUnchanged

\* the comparison without lower()
IsSentinel_exact(name) == name = <<"d", "o", "n", "e">>

\* cluster_name.lower() == 'done'
IsSentinel(name) == Lower(name) = <<"d", "o", "n", "e">>

\* the branch 'elif cluster_name in clusters' of the selection loop
ScanAksCluster(name) ==
    /\ credFetches' = credFetches \cup {name}
    /\ netCalls' = netCalls \cup {"cli"}
    /\ \E fetched \in {f \in BOOLEAN : f => "cli" \in installed} :
          IF ~fetched
          THEN \* returncode != 0: a message, and the loop goes on
               /\ failedClusters' = failedClusters \cup {name}
               /\ Goto("scan")
               /\ UNCHANGED << fatal, clusters_data, scanLog, homeCfg, kube,
                               firstCounts >>
          ELSE LET ctx == ActiveCtx(environ, name, cwdCfg) IN
               \E p \in Observe(ctx) :
                  /\ homeCfg' = name
                  /\ IF Reached(ctx, p)
                     THEN /\ AppendRow(name, ctx, p)
                          /\ Goto("scan")
                          /\ UNCHANGED <<fatal, failedClusters>>
                     ELSE \* 'kubectl get pods --all-namespaces', check=True
                          /\ Exit(1)
                          /\ fatal' = fatal \cup {"scan"}
                          /\ failedClusters' = failedClusters \cup {name}
                          /\ kube' = Observed(ctx, p)
                          /\ UNCHANGED <<clusters_data, scanLog, firstCounts>>

\* one iteration of 'while True': a name is read, stripped and handled
get_aks_data_iter ==
    /\ script = "azure"
    /\ pc = "scan"
    /\ \/ \* input() raises EOFError
          /\ Exit(1)
          /\ fatal' = fatal \cup {"scan"}
          /\ UNCHANGED << netCalls, clusters_data, scanLog, cluster_name,
                          n_inputs, credFetches, failedClusters, homeCfg,
                          kube, firstCounts >>
       \/ \E raw \in RawInputs :
             LET name == Strip(raw) IN
             /\ n_inputs < MaxInputs \/ IsSentinel(name)
             /\ cluster_name' = name
             /\ n_inputs' = n_inputs + 1
             /\ IF IsSentinel(name)
                THEN /\ Goto("write")
                     /\ UNCHANGED << fatal, netCalls, clusters_data, scanLog,
                                     credFetches, failedClusters, homeCfg,
                                     kube, firstCounts >>
                ELSE IF name \in Range(clusters)
                THEN ScanAksCluster(name)
                ELSE /\ Goto("scan")
                     /\ UNCHANGED << fatal, netCalls, clusters_data, scanLog,
                                     credFetches, failedClusters, homeCfg,
                                     kube, firstCounts >>
    /\ UNCHANGED <<clusters, next_i, environ, cwdCfg>>
    /\ ScanUnchanged

(***************************** reports *************************************)
Report(rows) == [exists |-> TRUE, rows |-> rows]

\* the two 'with open(..., "w")' blocks of __main__; failAt is the block
\* whose open() raises (0: none)
WriteReports ==
    /\ pc = "write"
    /\ \E failAt \in 0..2 :
          /\ inventory_csv' = IF failAt = 1 THEN inventory_csv ELSE Report(inventory.n)
          /\ cluster_csv' = IF failAt = 0 THEN Report(clusters_data) ELSE cluster_csv
          /\ Exit(IF failAt = 0 THEN 0 ELSE 1)
    /\ UNCHANGED << script, run, installed, fatal, netCalls, subscription_id,
                    inventory, listed, accountClusters, clusters, next_i,
                    clusters_data, scanLog, cluster_name, n_inputs, credFetches,
                    failedClusters, environ, homeCfg, cwdCfg, kube,
                    firstCounts >>

aws_write == script = "aws" /\ WriteReports

azure_write == script = "azure" /\ WriteReports

\* the script is started again in the same working directory: a new
\* process, the same files, tools and clusters; the account may list other
\* clusters, or the same in another order
Restart ==
    /\ pc = "done"
    /\ run < MaxRuns
    /\ run' = run + 1
    /\ pc' = "import"
    /\ exit_code' = Running
    /\ exit_at' = "none"
    /\ fatal' = {}
    /\ netCalls' = {}
    /\ subscription_id' = <<>>
    /\ inventory' = NoInventory
    /\ listed' = <<>>
    /\ accountClusters' \in ClusterLists
    /\ clusters' = <<>>
    /\ next_i' = 1
    /\ clusters_data' = <<>>
    /\ scanLog' = <<>>
    /\ cluster_name' = <<>>
    /\ n_inputs' = 0
    /\ credFetches' = {}
    /\ failedClusters' = {}
    /\ environ' = "unset"
    /\ inventory_csv' = NoReport
    /\ cluster_csv' = NoReport
    /\ UNCHANGED <<script, installed, homeCfg, cwdCfg, kube, firstCounts>>

Next ==
    \/ aws_import
    \/ azure_import
    \/ aws_check_tools
    \/ azure_check_tools
    \/ login_aws
    \/ login_azure
    \/ aws_get_inventory
    \/ azure_get_inventory
    \/ get_eks_data_list
    \/ get_eks_data_iter
    \/ get_eks_data_return
    \/ get_aks_data_list
    \/ get_aks_data_iter
    \/ aws_write
    \/ azure_write

\* one run of either script
Spec == Init /\ [][Next]_vars

NextAws ==
    \/ aws_import
    \/ aws_check_tools
    \/ login_aws
    \/ aws_get_inventory
    \/ get_eks_data_list
    \/ get_eks_data_iter
    \/ get_eks_data_return
    \/ aws_write
    \/ Restart

InitAws == Init /\ script = "aws"

\* up to MaxRuns runs of the AWS script in one working directory
AwsRuns == InitAws /\ [][NextAws]_vars


(***************************** properties **********************************)
Done == <<"d", "o", "n", "e">>
Rows == DOMAIN clusters_data
FatalKinds == {"tool", "auth", "inventory"}

\* the clusters the scan has been asked to summarise so far
Attempted ==
    IF script = "aws" THEN {clusters[i] : i \in 1..(next_i - 1)} \cup failedClusters
    ELSE credFetches

HasRow(c) == \E i \in Rows : clusters_data[i].name = c

HasMarkedRow(c) ==
    \E i \in Rows :
        /\ clusters_data[i].name = c
        /\ ~IsCount(clusters_data[i].Nodes)
        /\ ~IsCount(clusters_data[i].Pods)
        /\ ~IsCount(clusters_data[i].Containers)

\* C1: a cluster whose access resolution or kubectl query fails does not
\* abort the run; the result holds a summary marked unknown for it and a
\* summary for every other cluster of the scan, and all of them reach the
\* cluster report.
C1_FailedClusterIsolated ==
    failedClusters # {} =>
        /\ exit_at # "scan"
        /\ \A c \in failedClusters : HasMarkedRow(c)
        /\ \A c \in Attempted : HasRow(c)
        /\ (pc = "done" /\ exit_code = 0) => cluster_csv.rows = clusters_data

\* C2: when the node, pod and container queries of a cluster are issued,
\* the active context is the one resolved for that cluster, for the first
\* cluster of a scan and for every later one.
C2_QueriesUseOwnContext ==
    \A i \in DOMAIN scanLog : scanLog[i].ctx = scanLog[i].name

\* C3: the 'Containers' value recorded for a cluster is the number of
\* container statuses of all its pods, for 0, 1, 2 and more of them.
C3_ContainersIsStatusCount ==
    \A i \in Rows :
        (scanLog[i].reached /\ scanLog[i].ctx = clusters_data[i].name) =>
            clusters_data[i].Containers = Dec(Sum(kube[clusters_data[i].name].pods))

\* C4: every count of the inventory is the number of items the account
\* holds in that category, whatever the number of pages and of instances
\* per reservation.
C4_InventoryCountsAreTrue ==
    inventory.done => inventory.n = listed

Hex8_4_4_4_12(s) ==
    /\ Len(s) = 36
    /\ \A i \in {9, 14, 19, 24} : s[i] = "-"
    /\ \A i \in (1..36) \ {9, 14, 19, 24} : s[i] \in {"h", "H"}

\* login_azure has read a subscription ID that does not have the
\* 8-4-4-4-12 hexadecimal form
InvalidIdRead ==
    /\ script = "azure"
    /\ pc \notin {"import", "check_tools", "login"}
    /\ exit_at \notin {"import", "check_tools"}
    /\ ~Hex8_4_4_4_12(subscription_id)

\* C5, as stated: an invalid subscription ID ends the run with a failure
\* and nothing has attempted a network call before, the tool check
\* included.
C5_InvalidIdBeforeAnyNetwork ==
    InvalidIdRead =>
        /\ pc = "done" /\ exit_at = "login" /\ exit_code = 1
        /\ netCalls = {}

\* C5, amended: an invalid subscription ID ends the run with a failure and
\* neither the credential, nor a management client, nor the package check
\* has attempted a network call; only check_tools, which runs before the ID
\* is read, may have downloaded a missing tool.
C5_InvalidIdBeforeSdkNetwork ==
    InvalidIdRead =>
        /\ pc = "done" /\ exit_at = "login" /\ exit_code = 1
        /\ netCalls \subseteq {"check_tools"}

C5_Witness ==
    /\ InvalidIdRead
    /\ subscription_id = SubLong
    /\ pc = "done"
    /\ netCalls = {"check_tools"}

\* C6: when a listing query of get_inventory fails the run ends fatally:
\* no inventory is returned, the cluster scan is never started and neither
\* report is written in that run.
C6_InventoryAllOrNothing ==
    "inventory" \in fatal =>
        /\ pc = "done" /\ exit_code = 1 /\ exit_at = "get_inventory"
        /\ ~inventory.done
        /\ clusters = <<>> /\ clusters_data = <<>> /\ credFetches = {}
        /\ ~inventory_csv.exists /\ ~cluster_csv.exists

C6_Witness ==
    /\ "inventory" \in fatal
    /\ script = "azure"
    /\ "check_tools" \in netCalls

\* C7: every recorded Nodes, Pods and Containers value is a number the
\* kubectl query returned or an unknown marker: a row whose queries failed
\* holds markers, not numbers.
C7_CountOrUnknownMarker ==
    \A i \in Rows :
        ~scanLog[i].reached =>
            /\ ~IsCount(clusters_data[i].Nodes)
            /\ ~IsCount(clusters_data[i].Pods)
            /\ ~IsCount(clusters_data[i].Containers)

\* C8: a run ends with status 0 after the whole pipeline wrote both
\* reports, or with a non-zero status; a failed tool installation, a failed
\* authentication and a failed inventory query all end it non-zero.
C8_FatalErrorExitsNonZero ==
    /\ pc = "done" => exit_code \in {0, 1}
    /\ (pc = "done" /\ exit_code = 0) =>
          exit_at = "write" /\ inventory_csv.exists /\ cluster_csv.exists
    /\ (pc = "done" /\ fatal \cap FatalKinds # {}) => exit_code # 0

\* C9: scanning an unchanged cluster again records the same Nodes, Pods
\* and Containers as its first scan, whatever was scanned in between and in
\* whichever run.
C9_CollectIdempotent ==
    \A i \in Rows :
        Counts(clusters_data[i]) = firstCounts[clusters_data[i].name]

C10_State ==
    script = "azure" =>
        /\ credFetches \subseteq Range(clusters)
        /\ \A i \in Rows : clusters_data[i].name \in Range(clusters)
        /\ \A i \in Rows : Lower(clusters_data[i].name) # Done
        /\ Done \notin {Lower(c) : c \in credFetches}
        /\ (pc = "write" \/ exit_at = "write") => Lower(cluster_name) = Done

C10_Step ==
    (script = "azure" /\ pc = "scan") =>
        \/ pc' = "done" /\ exit_code' = 1 /\ clusters_data' = clusters_data
        \/ /\ n_inputs' = n_inputs + 1
           /\ \/ clusters_data' = clusters_data
              \/ /\ Len(clusters_data') = Len(clusters_data) + 1
                 /\ SubSeq(clusters_data', 1, Len(clusters_data)) = clusters_data
                 /\ clusters_data'[Len(clusters_data')].name = cluster_name'
           /\ pc' = "write" => Lower(cluster_name') = Done
           /\ (cluster_name' \notin Range(clusters) /\ Lower(cluster_name') # Done) =>
                 /\ pc' = "scan"
                 /\ clusters_data' = clusters_data
                 /\ credFetches' = credFetches

\* C10: in the AKS selection loop a credential fetch is started and a row
\* appended only for a typed name that was enumerated; each row is appended
\* at the end, for the name just typed, so rows are in the order typed; the
\* loop ends normally only on 'done' in any letter case, which is tested
\* first, so a cluster named 'done' is never scanned; any other name that
\* was not enumerated changes nothing and the prompt comes again.
C10_SelectionLoop == [](C10_State) /\ [][C10_Step]_vars

C10_Witness ==
    /\ script = "azure"
    /\ pc = "write"
    /\ cluster_name = NameDone
    /\ NameDone \in Range(clusters)
    /\ Len(clusters_data) = 2
    /\ clusters_data[1].name = NameB
    /\ clusters_data[2].name = NameA

=============================================================================
